---------------------------- MODULE Spec2Model ----------------------------
(***************************************************************************)
(* Model of signalpy/storage/store.py: the Store contract and its two      *)
(* entity stores, SignalEventsStore and AccountStore, over one database    *)
(* handle.  One run of the model follows one store (its kind is fixed in   *)
(* Init): the two stores share no state, each has a table of its own.      *)
(*                                                                         *)
(* Python values are tagged: [t |-> "str" | "int" | "float" | "none" |     *)
(* "absent", v |-> ...].  A float is held in hundredths (314 is 3.14);     *)
(* "absent" stands for an attribute the object does not have.              *)
(***************************************************************************)
EXTENDS Integers, Sequences, FiniteSets, TLC

(* ------------------------------ bounds --------------------------------- *)

\* successful writes to the table in one run
MaxWrites == 3
\* integers that int() can parse from text
MaxParse == 300

(* --------------------------- Python values ----------------------------- *)

StrV(s) == [t |-> "str", v |-> s]
IntV(n) == [t |-> "int", v |-> n]
FloatV(h) == [t |-> "float", v |-> h]
NoneV == [t |-> "none", v |-> 0]
AbsentV == [t |-> "absent", v |-> 0]

Ok(v) == [err |-> "ok", v |-> v]
Raise(e) == [err |-> e, v |-> NoneV]

Digit(d) ==
  CASE d = 0 -> "0" [] d = 1 -> "1" [] d = 2 -> "2" [] d = 3 -> "3"
    [] d = 4 -> "4" [] d = 5 -> "5" [] d = 6 -> "6" [] d = 7 -> "7"
    [] d = 8 -> "8" [] d = 9 -> "9"

RECURSIVE ItoS(_)
\* str(n) of a natural number
ItoS(n) == IF n < 10 THEN Digit(n) ELSE ItoS(n \div 10) \o Digit(n % 10)

\* str(x) of a float held in hundredths: 314 -> "3.14", 300 -> "3.0"
FtoS(h) ==
  ItoS(h \div 100) \o "." \o
    (IF h % 10 = 0 THEN Digit((h % 100) \div 10)
     ELSE Digit((h % 100) \div 10) \o Digit(h % 10))

\* str(v)
PyStr(v) ==
  CASE v.t = "str" -> v.v
    [] v.t = "int" -> ItoS(v.v)
    [] v.t = "float" -> FtoS(v.v)
    [] OTHER -> "None"

\* the decimal texts int() and float() parse, with the number each one denotes
DecimalTexts == [n \in 0..MaxParse |-> ItoS(n)]

DecimalSet == {DecimalTexts[n] : n \in 0..MaxParse}

\* the text s is the decimal form of a natural number
IsDecimal(s) == s \in DecimalSet

ParseDecimal(s) == CHOOSE n \in 0..MaxParse : DecimalTexts[n] = s

\* int(v): ValueError on text that is no number, TypeError on None
PyInt(v) ==
  CASE v.t = "int" -> Ok(IntV(v.v))
    [] v.t = "float" -> Ok(IntV(v.v \div 100))
    [] v.t = "str" -> IF IsDecimal(v.v) THEN Ok(IntV(ParseDecimal(v.v)))
                      ELSE Raise("ValueError")
    [] OTHER -> Raise("TypeError")

\* float(v)
PyFloat(v) ==
  CASE v.t = "int" -> Ok(FloatV(v.v * 100))
    [] v.t = "float" -> Ok(FloatV(v.v))
    [] v.t = "str" -> IF IsDecimal(v.v) THEN Ok(FloatV(ParseDecimal(v.v) * 100))
                      ELSE Raise("ValueError")
    [] OTHER -> Raise("TypeError")

\* a == b in Python: 3 == 3.0, and "5" != 5
PyEq(a, b) ==
  CASE a.t = "int" /\ b.t = "float" -> a.v * 100 = b.v
    [] a.t = "float" /\ b.t = "int" -> a.v = b.v * 100
    [] OTHER -> a = b

(* ------------------------ schemas and layouts -------------------------- *)

Kinds == {"Account", "SignalEvent"}

\* SignalEventsStore.table_name, AccountStore.table_name
table_name(kind) == IF kind = "Account" THEN "Accounts" ELSE "SignalEvents"

\* table_info with the signal events' RANGE key left out
table_info_HashOnly(kind) ==
  IF kind = "Account"
  THEN [sqlite |-> [schema |-> << <<"guid", "text">>, <<"name", "text">>,
                                  <<"token", "text">> >>],
        dynamodb |->
          [KeySchema |-> << [AttributeName |-> "guid", KeyType |-> "HASH"] >>,
           AttributeDefinitions |->
             << [AttributeName |-> "guid", AttributeType |-> "S"] >>]]
  ELSE [sqlite |-> [schema |-> << <<"signal_guid", "text">>, <<"time", "integer">>,
                                  <<"device_guid", "text">>, <<"val", "real">> >>],
        dynamodb |->
          [KeySchema |-> << [AttributeName |-> "signal_guid", KeyType |-> "HASH"] >>,
           AttributeDefinitions |->
             << [AttributeName |-> "signal_guid", AttributeType |-> "S"] >>]]

\* the Table Layouts a store declares, by backend kind
table_info(kind) ==
  IF kind = "Account"
  THEN [sqlite |-> [schema |-> << <<"guid", "text">>, <<"name", "text">>,
                                  <<"token", "text">> >>],
        dynamodb |->
          [KeySchema |-> << [AttributeName |-> "guid", KeyType |-> "HASH"] >>,
           AttributeDefinitions |->
             << [AttributeName |-> "guid", AttributeType |-> "S"] >>]]
  ELSE [sqlite |-> [schema |-> << <<"signal_guid", "text">>, <<"time", "integer">>,
                                  <<"device_guid", "text">>, <<"val", "real">> >>],
        dynamodb |->
          [KeySchema |-> << [AttributeName |-> "signal_guid", KeyType |-> "HASH"],
                            [AttributeName |-> "time", KeyType |-> "RANGE"] >>,
           AttributeDefinitions |->
             << [AttributeName |-> "signal_guid", AttributeType |-> "S"],
                [AttributeName |-> "time", AttributeType |-> "N"] >>]]

\* the fields a Schema declares, with their marshmallow field types
SchemaFields(kind) ==
  IF kind = "Account"
  THEN [guid |-> "Str", name |-> "Str", token |-> "Str"]
  ELSE [time |-> "Int", signal_guid |-> "Str", device_guid |-> "Str", val |-> "Float"]

\* SchemaUnknown with EXCLUDE declared on both schemas
SchemaUnknownExclude(kind) == "EXCLUDE"

\* Meta.unknown: AccountStore.Schema sets EXCLUDE, SignalEventsStore.Schema
\* declares nothing and keeps marshmallow's default, RAISE
SchemaUnknown(kind) == IF kind = "Account" THEN "EXCLUDE" ELSE "RAISE"

\* a field's serialization in Schema.dump: no validation, None passes through,
\* Str is str(value), Int is int(value), Float is float(value)
Serialize(type, v) ==
  CASE v.t = "none" -> Ok(NoneV)
    [] type = "Str" -> Ok(StrV(PyStr(v)))
    [] type = "Int" -> PyInt(v)
    [] OTHER -> PyFloat(v)

\* a field's deserialization in Schema.load: None and values of the wrong type
\* are invalid; Int and Float accept what int() and float() accept
Deserialize(type, v) ==
  CASE v.t = "none" -> Raise("ValidationError")
    [] type = "Str" -> IF v.t = "str" THEN Ok(v) ELSE Raise("ValidationError")
    [] type = "Int" -> IF PyInt(v).err = "ok" THEN PyInt(v) ELSE Raise("ValidationError")
    [] OTHER -> IF PyFloat(v).err = "ok" THEN PyFloat(v) ELSE Raise("ValidationError")

\* Schema.dump(fields): the Record, or the error of the first field (in the
\* schema's order) whose conversion raises
SchemaDump(kind, fields) ==
  LET S == SchemaFields(kind)
      bad == {f \in DOMAIN S : Serialize(S[f], fields[f]).err # "ok"}
      order == IF kind = "Account" THEN <<"guid", "name", "token">>
               ELSE <<"time", "signal_guid", "device_guid", "val">>
      first == CHOOSE i \in 1..Len(order) :
                 order[i] \in bad /\ \A j \in 1..(i - 1) : order[j] \notin bad
  IN  IF bad = {} THEN Ok([f \in DOMAIN S |-> Serialize(S[f], fields[f]).v])
      ELSE Raise(Serialize(S[order[first]], fields[order[first]]).err)

\* Schema.load(record): the validated fields; a key the schema does not declare
\* is dropped under EXCLUDE and is an error under RAISE
SchemaLoad(kind, rec) ==
  LET S == SchemaFields(kind)
      known == DOMAIN rec \cap DOMAIN S
  IN  IF (DOMAIN rec \ DOMAIN S) # {} /\ SchemaUnknown(kind) = "RAISE"
      THEN Raise("ValidationError")
      ELSE IF \E f \in known : Deserialize(S[f], rec[f]).err # "ok"
      THEN Raise("ValidationError")
      ELSE Ok([f \in known |-> Deserialize(S[f], rec[f]).v])

(* ------------------------- entities, registries ------------------------ *)

NoObj == [oid |-> "None", guid |-> AbsentV]

\* live Device objects: D1b is another object carrying D1's guid
Devices == {[oid |-> "D1", guid |-> StrV("d1")], [oid |-> "D1b", guid |-> StrV("d1")]}

Signals == {[oid |-> "S1", guid |-> StrV("s1")], [oid |-> "S2", guid |-> StrV("s2")]}

\* the accounts put is called with: well-typed ones, then a name that is an
\* int, a name that is None, and an object without a token attribute
AccountInputs ==
  [guid : {StrV("a1"), StrV("a2")}, name : {StrV("Alice"), StrV("Bob")},
   token : {StrV("tok123")}]
  \cup {[guid |-> StrV("a1"), name |-> IntV(5), token |-> StrV("tok123")],
        [guid |-> StrV("a1"), name |-> NoneV, token |-> StrV("tok123")],
        [guid |-> StrV("a1"), name |-> StrV("Alice"), token |-> AbsentV]}

D1 == CHOOSE x \in Devices : x.oid = "D1"

S1 == CHOOSE x \in Signals : x.oid = "S1"

S2 == CHOOSE x \in Signals : x.oid = "S2"

\* the signal events put is called with: well-typed ones (three identities,
\* another val, the other device object), then a time that is text and a
\* signal that is None
SignalEventInputs ==
  {[time |-> IntV(100), signal |-> S1, device |-> d, val |-> FloatV(314)] :
     d \in Devices}
  \cup {[time |-> IntV(100), signal |-> S1, device |-> D1, val |-> FloatV(250)],
        [time |-> IntV(200), signal |-> S1, device |-> D1, val |-> FloatV(314)],
        [time |-> IntV(100), signal |-> S2, device |-> D1, val |-> FloatV(314)]}
  \cup {[time |-> StrV("abc"), signal |-> S1, device |-> D1, val |-> FloatV(314)],
        [time |-> IntV(100), signal |-> NoObj, device |-> D1, val |-> FloatV(314)]}

Inputs(kind) == IF kind = "Account" THEN AccountInputs ELSE SignalEventInputs

\* sp.Account(guid=, name=, token=)
AccountInit(guid, name, token) == [guid |-> guid, name |-> name, token |-> token]

\* sp.SignalEvent(time, device, signal, val)
SignalEventInit(time, device, signal, val) ==
  [time |-> time, signal |-> signal, device |-> device, val |-> val]

\* Device.by_guid[guid], Signal.by_guid[guid]: the object registered under guid
by_guid(registry, guid) ==
  IF \E o \in registry : o.guid = guid
  THEN Ok(CHOOSE o \in registry : o.guid = guid)
  ELSE Raise("ReferenceNotFoundError")

(* --------------------------- Table Abstraction ------------------------- *)

Backends == {"sqlite", "dynamodb", "postgres"}

\* db.create_table(name, info): the layout of the handle's backend kind
create_table(backend, info) ==
  IF backend \in DOMAIN info THEN Ok(info[backend])
  ELSE Raise("UnsupportedBackendError")

\* the identity of an entity kind's records on a relational table
IdentityKey(kind) == IF kind = "Account" THEN {"guid"} ELSE {"signal_guid", "time"}

\* the fields that make a record's key under a layout
KeyAttrs(kind, layout) ==
  IF "KeySchema" \in DOMAIN layout
  THEN {layout.KeySchema[i].AttributeName : i \in 1..Len(layout.KeySchema)}
  ELSE IdentityKey(kind)

KeyOf(attrs, rec) == [f \in attrs |-> rec[f]]

\* table.put(record): the record replaces the stored record of the same key
TablePut(rows, attrs, rec) ==
  {r \in rows : KeyOf(attrs, r) # KeyOf(attrs, rec)} \cup {rec}

(* ------------------------------ the stores ----------------------------- *)

\* PutFields with two attributes stored under each other's name
PutFieldsSwapped(kind, e) ==
  IF kind = "Account"
  THEN [guid |-> e.guid, name |-> e.token, token |-> e.name]
  ELSE [time |-> e.time, signal_guid |-> e.device.guid,
        device_guid |-> e.signal.guid, val |-> e.val]

\* the field mapping put builds from the entity's attributes
PutFields(kind, e) ==
  IF kind = "Account"
  THEN [guid |-> e.guid, name |-> e.name, token |-> e.token]
  ELSE [time |-> e.time, signal_guid |-> e.signal.guid,
        device_guid |-> e.device.guid, val |-> e.val]

\* StorePut with the error of table.put caught and dropped
StorePutMasked(kind, e, rows, layout, io) ==
  LET fields == PutFields(kind, e)
      so == SchemaDump(kind, fields)
  IN  IF \E f \in DOMAIN fields : fields[f] = AbsentV
      THEN [err |-> "AttributeError", rows |-> rows]
      ELSE IF so.err # "ok" THEN [err |-> so.err, rows |-> rows]
      ELSE IF layout = {} \/ io # "ok" THEN [err |-> "ok", rows |-> rows]
      ELSE [err |-> "ok",
            rows |-> TablePut(rows, KeyAttrs(kind, CHOOSE l \in layout : TRUE), so.v)]

\* put(entity) on a bound store: the error raised ("ok" for none) and the
\* table's records afterwards.  io is the backend's answer to table.put.
StorePut(kind, e, rows, layout, io) ==
  LET fields == PutFields(kind, e)
      so == SchemaDump(kind, fields)
  IN  IF \E f \in DOMAIN fields : fields[f] = AbsentV
      THEN [err |-> "AttributeError", rows |-> rows]
      ELSE IF so.err # "ok" THEN [err |-> so.err, rows |-> rows]
      ELSE IF layout = {} \/ io # "ok" THEN [err |-> "StorageIOError", rows |-> rows]
      ELSE [err |-> "ok",
            rows |-> TablePut(rows, KeyAttrs(kind, CHOOSE l \in layout : TRUE), so.v)]

\* _make_signal_event with a missing object replaced by None
make_signal_event_Partial(d, devices, signals) ==
  LET device == by_guid(devices, d.device_guid)
      signal == by_guid(signals, d.signal_guid)
  IN  Ok(SignalEventInit(d.time,
                         IF device.err = "ok" THEN device.v ELSE NoObj,
                         IF signal.err = "ok" THEN signal.v ELSE NoObj,
                         d.val))

\* _make_signal_event with the signal passed as the device and the device as
\* the signal
make_signal_event_Swapped(d, devices, signals) ==
  LET device == by_guid(devices, d.device_guid)
      signal == by_guid(signals, d.signal_guid)
  IN  IF device.err # "ok" THEN Raise(device.err)
      ELSE IF signal.err # "ok" THEN Raise(signal.err)
      ELSE Ok(SignalEventInit(d.time, signal.v, device.v, d.val))

\* SignalEventsStore._make_signal_event(d)
make_signal_event(d, devices, signals) ==
  LET device == by_guid(devices, d.device_guid)
      signal == by_guid(signals, d.signal_guid)
  IN  IF device.err # "ok" THEN Raise(device.err)
      ELSE IF signal.err # "ok" THEN Raise(signal.err)
      ELSE Ok(SignalEventInit(d.time, device.v, signal.v, d.val))

\* the body of query's loop for one record: load it, build the entity
Reconstruct(kind, rec, devices, signals) ==
  LET so == SchemaLoad(kind, rec)
  IN  IF so.err # "ok" THEN Raise(so.err)
      ELSE IF DOMAIN so.v # DOMAIN SchemaFields(kind) THEN Raise("KeyError")
      ELSE IF kind = "Account"
      THEN Ok(AccountInit(so.v.guid, so.v.name, so.v.token))
      ELSE make_signal_event(so.v, devices, signals)

\* a generator that query() has returned and nobody has advanced: the records
\* its table iterator has yet to return, the entities it has yielded, the error
\* that ended it, and whether the table was written between the call of
\* query() and the first next() (late) or after the first next() (dirty)
NewGen ==
  [st |-> "created", pending |-> {}, yielded |-> {}, err |-> "ok",
   late |-> FALSE, dirty |-> FALSE]

\* the generator after a write to the table
Written(g) ==
  CASE g.st = "created" -> [g EXCEPT !.late = TRUE]
    [] g.st \in {"running", "done"} -> [g EXCEPT !.dirty = TRUE]
    [] OTHER -> g

(* ------------------------------- state --------------------------------- *)

VARIABLES
  kind,      \* the entity kind of the store this run follows
  backend,   \* the backend kind of the database handle
  store,     \* the Store object: "unbound", or the name of the table self.table holds
  layout,    \* the layout the table was provisioned with ({} while it does not exist)
  rows,      \* the records the table holds
  devices,   \* Device.by_guid, as the set of registered objects
  signals,   \* Signal.by_guid
  gen,       \* the generator the last query() returned
  created,   \* what the last call of create raised ("none" before any, "ok" for nothing)
  lastPut,   \* the entity of the last successful put, while nothing else wrote since
  nwrites    \* successful writes so far

vars == <<kind, backend, store, layout, rows, devices, signals, gen, created, lastPut,
          nwrites>>

\* every field of the entity holds a value of its schema field's type
WellTyped(k, e) ==
  IF k = "Account"
  THEN e.guid.t = "str" /\ e.name.t = "str" /\ e.token.t = "str"
  ELSE e.time.t = "int" /\ e.val.t = "float" /\ e.signal # NoObj /\ e.device # NoObj

\* a record another writer of the same table stores: valid, with one more key
ForeignRecord(k) ==
  IF k = "Account"
  THEN [guid |-> StrV("a2"), name |-> StrV("Eve"), token |-> StrV("tok123"),
        extra |-> StrV("x")]
  ELSE [time |-> IntV(200), signal_guid |-> StrV("s1"), device_guid |-> StrV("d1"),
        val |-> FloatV(314), extra |-> StrV("x")]

Init ==
  /\ kind \in Kinds
  /\ backend \in Backends
  /\ store = "unbound"
  /\ layout = {}
  /\ rows = {}
  /\ devices = {}
  /\ signals = {}
  /\ gen = [NewGen EXCEPT !.st = "none"]
  /\ created = "none"
  /\ lastPut = {}
  /\ nwrites = 0

(* ------------------------------ operations ----------------------------- *)

\* Store.table(db, name), called by __init__: binds self.table
BindTable(name) == store' = name

\* create that constructs the store whatever create_table raised
CreateBindsAnyway ==
  /\ store = "unbound"
  /\ LET made == create_table(backend, table_info(kind))
     IN  /\ layout' = IF made.err = "ok" THEN {made.v} ELSE layout
         /\ created' = made.err
  /\ BindTable(table_name(kind))
  /\ UNCHANGED <<kind, backend, rows, devices, signals, gen, lastPut, nwrites>>

\* XStore.create(db): provision the table, then construct the store
Create ==
  /\ store = "unbound"
  /\ LET made == create_table(backend, table_info(kind))
     IN  IF made.err = "ok"
         THEN /\ layout' = {made.v}
              /\ BindTable(table_name(kind))
              /\ created' = "ok"
         ELSE /\ created' = made.err
              /\ UNCHANGED <<store, layout>>
  /\ UNCHANGED <<kind, backend, rows, devices, signals, gen, lastPut, nwrites>>

\* XStore(db): __init__ binds the table without provisioning it
Construct ==
  /\ store = "unbound"
  /\ BindTable(table_name(kind))
  /\ UNCHANGED <<kind, backend, layout, rows, devices, signals, gen, created, lastPut,
                 nwrites>>

\* table(db, name) as it would be were the method not shadowed: it binds again
RebindShadowless(name) ==
  /\ store # "unbound"
  /\ BindTable(name)
  /\ UNCHANGED <<kind, backend, layout, rows, devices, signals, gen, created, lastPut,
                 nwrites>>

\* store.table(db, name) on a constructed store: self.table is the Table by now,
\* the method is shadowed, and the call raises
Rebind(name) ==
  /\ store # "unbound"
  /\ UNCHANGED <<kind, backend, store, layout, rows, devices, signals, gen, created, lastPut,
                 nwrites>>

\* store.put(e)
Put(e, io) ==
  /\ store # "unbound"
  /\ nwrites < MaxWrites
  /\ LET out == StorePut(kind, e, rows, layout, io)
     IN  /\ rows' = out.rows
         /\ lastPut' = IF out.err = "ok" THEN {e} ELSE lastPut
         /\ nwrites' = IF out.err = "ok" THEN nwrites + 1 ELSE nwrites
         /\ gen' = IF out.err = "ok" THEN Written(gen) ELSE gen
  /\ UNCHANGED <<kind, backend, store, layout, devices, signals, created>>

\* another writer of the table stores a record
ForeignPut ==
  /\ layout # {}
  /\ nwrites < MaxWrites
  /\ rows' = TablePut(rows, KeyAttrs(kind, CHOOSE l \in layout : TRUE), ForeignRecord(kind))
  /\ lastPut' = {}
  /\ nwrites' = nwrites + 1
  /\ gen' = Written(gen)
  /\ UNCHANGED <<kind, backend, store, layout, devices, signals, created>>

\* query() as a plain function that reads the table when it is called
QueryEager ==
  /\ store # "unbound"
  /\ gen' = [NewGen EXCEPT !.pending = rows]
  /\ UNCHANGED <<kind, backend, store, layout, rows, devices, signals, created, lastPut,
                 nwrites>>

\* store.query(): a generator function, so the call runs none of its body
Query ==
  /\ store # "unbound"
  /\ gen' = NewGen
  /\ UNCHANGED <<kind, backend, store, layout, rows, devices, signals, created, lastPut,
                 nwrites>>

\* the loop of query with the failing record skipped
ResumeSkipping(g) ==
  IF g.pending = {}
  THEN gen' = [g EXCEPT !.st = "done"]
  ELSE \E r \in g.pending :
         LET e == Reconstruct(kind, r, devices, signals)
             g1 == [g EXCEPT !.pending = @ \ {r}]
         IN  IF e.err = "ok"
             THEN gen' = [g1 EXCEPT !.yielded = @ \cup {e.v}]
             ELSE gen' = g1

\* one turn of query's loop on generator g: the table's iterator returns a
\* record, which is yielded as an entity or ends the generator with its error
Resume(g) ==
  IF g.pending = {}
  THEN gen' = [g EXCEPT !.st = "done"]
  ELSE \E r \in g.pending :
         LET e == Reconstruct(kind, r, devices, signals)
             g1 == [g EXCEPT !.pending = @ \ {r}]
         IN  IF e.err = "ok"
             THEN gen' = [g1 EXCEPT !.yielded = @ \cup {e.v}]
             ELSE gen' = [g1 EXCEPT !.st = "done", !.err = e.err]

\* next(gen): the first one calls table.query(), which reads the table
GenNext ==
  /\ \/ /\ gen.st = "created"
        /\ layout = {}
        /\ gen' = [gen EXCEPT !.st = "done", !.err = "StorageIOError"]
     \/ /\ gen.st = "created"
        /\ layout # {}
        /\ Resume([gen EXCEPT !.st = "running", !.pending = rows])
     \/ /\ gen.st = "running"
        /\ Resume(gen)
     \/ /\ gen.st = "done"
        /\ UNCHANGED gen
  /\ UNCHANGED <<kind, backend, store, layout, rows, devices, signals, created,
                 lastPut, nwrites>>

\* code outside the store registers a device object under its guid
RegisterDevice(o) ==
  /\ kind = "SignalEvent"
  /\ o \notin devices
  /\ devices' = {x \in devices : x.guid # o.guid} \cup {o}
  /\ UNCHANGED <<kind, backend, store, layout, rows, signals, gen, created, lastPut,
                 nwrites>>

\* code outside the store registers the signals it knows
RegisterSignals ==
  /\ kind = "SignalEvent"
  /\ signals # Signals
  /\ signals' = Signals
  /\ UNCHANGED <<kind, backend, store, layout, rows, devices, gen, created, lastPut,
                 nwrites>>

\* the process's local state is cleared: both registries are empty again
ClearRegistries ==
  /\ kind = "SignalEvent"
  /\ devices # {} \/ signals # {}
  /\ devices' = {}
  /\ signals' = {}
  /\ UNCHANGED <<kind, backend, store, layout, rows, gen, created, lastPut, nwrites>>

Next ==
  \/ Create
  \/ Construct
  \/ \E name \in {"Accounts", "SignalEvents"} : Rebind(name)
  \/ \E e \in Inputs(kind), io \in {"ok", "StorageIOError"} : Put(e, io)
  \/ ForeignPut
  \/ Query
  \/ GenNext
  \/ \E o \in Devices : RegisterDevice(o)
  \/ RegisterSignals
  \/ ClearRegistries

Spec == Init /\ [][Next]_vars

(* ------------------------- what the claims state ----------------------- *)

\* two entities agree on every field the schema covers
EntityEq(k, a, b) ==
  IF k = "Account"
  THEN PyEq(a.guid, b.guid) /\ PyEq(a.name, b.name) /\ PyEq(a.token, b.token)
  ELSE /\ PyEq(a.time, b.time)
       /\ PyEq(a.signal.guid, b.signal.guid)
       /\ PyEq(a.device.guid, b.device.guid)
       /\ PyEq(a.val, b.val)

\* a generator that read the table after the last put and was consumed to its
\* end without an error, nobody else having written meanwhile
ConsumedAfterPut ==
  /\ gen.st = "done"
  /\ gen.err = "ok"
  /\ ~gen.dirty
  /\ lastPut # {}

Identity(k, r) ==
  IF k = "Account" THEN <<r.guid>> ELSE <<r.signal_guid, r.time>>

\* the record put stores for entity E
RecordOf(k, E) == SchemaDump(k, PutFields(k, E)).v

GenStep ==
  /\ gen.st \in {"created", "running"}
  /\ gen'.st \in {"running", "done"}
  /\ gen'.st # gen.st \/ gen'.pending # gen.pending

\* the record the table's iterator returned in this step (none at the end)
Taken == (IF gen.st = "created" THEN rows ELSE gen.pending) \ gen'.pending

\* a record names a device or a signal that its registry does not hold
Unresolved(r) ==
  \/ r.device_guid \notin {o.guid : o \in devices}
  \/ r.signal_guid \notin {o.guid : o \in signals}

\* C3, as stated: a stored signal event record whose device or signal guid is not
\* registered when the record is reconstructed ends the query with a
\* ReferenceNotFoundError and yields nothing.
C3_UnresolvedRaisesReference ==
  [][GenStep /\ kind = "SignalEvent" =>
       \A r \in Taken : Unresolved(r) =>
         gen'.err = "ReferenceNotFoundError" /\ gen'.yielded = gen.yielded]_vars

\* C3, amended: such a record yields nothing and ends the query, with a
\* ReferenceNotFoundError when the schema loads the record and with the load's
\* ValidationError when it does not.
C3_UnresolvedNeverYields ==
  [][GenStep /\ kind = "SignalEvent" =>
       \A r \in Taken : Unresolved(r) =>
         /\ gen'.st = "done"
         /\ gen'.yielded = gen.yielded
         /\ gen'.err = IF SchemaLoad(kind, r).err = "ok" THEN "ReferenceNotFoundError"
                       ELSE "ValidationError"]_vars

\* a query ended on an unresolved reference after it had yielded an entity
C3_Witness ==
  /\ kind = "SignalEvent"
  /\ gen.st = "done"
  /\ gen.err = "ReferenceNotFoundError"
  /\ gen.yielded # {}

C5_UnknownKeyPolicy ==
  [][GenStep =>
       \A r \in Taken : "extra" \in DOMAIN r =>
         IF kind = "Account"
         THEN /\ gen'.err = "ok"
              /\ gen'.yielded = gen.yielded \cup {AccountInit(r.guid, r.name, r.token)}
         ELSE /\ gen'.st = "done"
              /\ gen'.err = "ValidationError"
              /\ gen'.yielded = gen.yielded]_vars

\* an account store has yielded the account of another writer's record
C5_Witness ==
  /\ kind = "Account"
  /\ \E y \in gen.yielded : y = AccountInit(StrV("a2"), StrV("Eve"), StrV("tok123"))

\* C6, as stated: a store becomes bound only through create, which provisions
\* the table before it binds.
C6_BoundOnlyViaCreate == store # "unbound" => created = "ok"

\* C6, amended: a store is unbound or bound; it becomes bound once, to its own
\* table, when it is constructed, by create (the table provisioned first) or by
\* the constructor alone (nothing provisioned); the binding is never undone or
\* changed; and nothing is put or queried through an unbound store.
C6_BindsOnceAtConstruction ==
  [][/\ store # "unbound" => store' = store
     /\ store = "unbound" /\ store' # "unbound" =>
          /\ store' = table_name(kind)
          /\ created' # created => layout' # {}
     /\ store = "unbound" => rows' = rows /\ gen' = gen /\ lastPut' = lastPut
    ]_vars

\* a store bound by its constructor alone: no table was provisioned
C6_Witness == store # "unbound" /\ layout = {} /\ created = "none"

\* C7: create provisions the table with the layout declared for the handle's
\* backend kind and returns the bound store; for a backend kind without a
\* declared layout it raises UnsupportedBackendError, provisions nothing and
\* returns no store.
C7_CreateSelectsLayout ==
  [][created' # created \/ layout' # layout =>
       IF backend \in {"sqlite", "dynamodb"}
       THEN /\ created' = "ok"
            /\ layout' = {table_info(kind)[backend]}
            /\ store' = table_name(kind)
       ELSE /\ created' = "UnsupportedBackendError"
            /\ layout' = {}
            /\ store' = store]_vars

\* create has failed on a backend without a layout: no table, no store
C7_Witness ==
  created = "UnsupportedBackendError" /\ store = "unbound" /\ layout = {}

MissingAttr(k, e) ==
  IF k = "Account" THEN AbsentV \in {e.guid, e.name, e.token}
  ELSE e.signal = NoObj \/ e.device = NoObj \/ AbsentV \in {e.time, e.val}

\* int() and float() accept the value (None is passed through unconverted)
Numeric(v) == v.t \in {"int", "float", "none"} \/ (v.t = "str" /\ IsDecimal(v.v))

C10_AbortOnFailure ==
  [][/\ GenStep =>
          \A r \in Taken :
            IF SchemaLoad(kind, r).err = "ok" /\ (kind = "SignalEvent" => ~Unresolved(r))
            THEN /\ gen'.st = "running"
                 /\ gen'.err = "ok"
                 /\ Cardinality(gen'.yielded) = Cardinality(gen.yielded) + 1
            ELSE /\ gen'.st = "done"
                 /\ gen'.err \in {"ValidationError", "ReferenceNotFoundError"}
                 /\ gen'.yielded = gen.yielded
     /\ gen.st = "done" /\ gen'.st # "created" =>
          gen'.st = "done" /\ gen'.yielded = gen.yielded /\ gen'.err = gen.err
    ]_vars

\* a query that yielded an entity, failed on the next record and left a third
\* record unreturned
C10_Witness ==
  /\ gen.st = "done"
  /\ gen.err \in {"ValidationError", "ReferenceNotFoundError"}
  /\ gen.yielded # {}
  /\ gen.pending # {}

=============================================================================
